---------------------------- MODULE Spec2Model ----------------------------
(***************************************************************************)
(* A model of the two parse engines of Parsley:                            *)
(*   - backtracking_parse (src/src/parse/backtracking_parser.rs), the      *)
(*     memoized recursive parser, as a machine with an explicit call stack *)
(*     of parse_expr frames;                                               *)
(*   - gss_parse_tokens (src/src/parse/gss_parser.rs), the graph           *)
(*     structured stack parser, one layer per step.                        *)
(* Both run on the same (parser, start_rule, tokens), drawn in Init.       *)
(***************************************************************************)
EXTENDS Integers, Sequences, FiniteSets, TLC

(***************************************************************************)
(* Bounds of the model.                                                    *)
(***************************************************************************)
\* Longest token sequence drawn in Init.
MaxLen == 3
\* Passes of one Many/OneOrMore closure loop the model follows.  A loop over
\* a child that consumes a token ends within Len(tokens) + 1 passes.
MaxPasses == 6
\* Depth of the GSS engine's recursion (resolve_to_terminals / advance_auto)
\* the model follows before it reports the call stack exhausted.
MaxDepth == 16

Alphabet == {"a", "b"}

(***************************************************************************)
(* Rule expressions: crate::define::RuleExpression.  The enum itself is    *)
(* not in src/; its variants are the ones both engines match on.           *)
(***************************************************************************)
Terminal(p)       == [kind |-> "Terminal", pat |-> p, name |-> "", subs |-> <<>>]
RuleName(n)       == [kind |-> "RuleName", pat |-> "", name |-> n, subs |-> <<>>]
Concatenation(es) == [kind |-> "Concatenation", pat |-> "", name |-> "", subs |-> es]
Alternatives(es)  == [kind |-> "Alternatives", pat |-> "", name |-> "", subs |-> es]
Optional(e)       == [kind |-> "Optional", pat |-> "", name |-> "", subs |-> <<e>>]
Many(e)           == [kind |-> "Many", pat |-> "", name |-> "", subs |-> <<e>>]
OneOrMore(e)      == [kind |-> "OneOrMore", pat |-> "", name |-> "", subs |-> <<e>>]

\* Token::matches for the canonical character token: the pattern is the
\* one-character string equal to the token.
Matches(p, tok) == p = tok

(***************************************************************************)
(* The parsers (rule maps) the inputs are drawn from.  None is left        *)
(* recursive.  "U" is a rule name no parser defines.                       *)
(***************************************************************************)
Rules1(e) == [n \in {"S"} |-> e]
Rules2(s, x) == [n \in {"S", "X"} |-> IF n = "S" THEN s ELSE x]

Parsers ==
  { Rules1(OneOrMore(Terminal("a"))),                              \* S : "a"+
    Rules1(Many(Terminal("a"))),                                   \* S : "a"*
    Rules1(Optional(Terminal("a"))),                               \* S : "a"?
    Rules1(Terminal("a")),                                         \* S : "a"
    Rules1(Concatenation(<<Terminal("a"), Terminal("b")>>)),       \* S : "a" "b"
    Rules1(Alternatives(<<Terminal("a"),
             Concatenation(<<Terminal("a"), Terminal("b")>>)>>)),  \* S : "a" | "a" "b"
    Rules2(RuleName("X"),
           Concatenation(<<Optional(Terminal("a")), Terminal("a")>>)), \* S : X ; X : "a"? "a"
    Rules1(Many(Alternatives(<<Terminal("a"), Terminal("b")>>))),  \* S : ("a" | "b")*
    Rules2(Concatenation(<<RuleName("X"), Terminal("b")>>),
           Many(Terminal("a"))),                                   \* S : X "b" ; X : "a"*
    Rules2(Concatenation(<<Terminal("a"), RuleName("X"), Terminal("b")>>),
           Optional(Terminal("b"))),                               \* S : "a" X "b" ; X : "b"?
    Rules1(Alternatives(<<Concatenation(<<Terminal("a"), RuleName("S")>>),
                          Terminal("b")>>)),                       \* S : "a" S | "b"
    Rules2(Concatenation(<<RuleName("X"),
             Many(Concatenation(<<Terminal("b"), RuleName("X")>>))>>),
           Terminal("a")),                                         \* S : X ("b" X)* ; X : "a"
    Rules1(Concatenation(<<Many(Terminal("a")), Many(Terminal("a"))>>)), \* S : "a"* "a"*
    Rules1(Alternatives(<<Terminal("b"),
             Concatenation(<<Terminal("a"), Terminal("a")>>)>>)),  \* S : "b" | "a" "a"
    Rules1(Alternatives(<<Terminal("a"), RuleName("U")>>)),        \* S : "a" | U
    Rules1(Concatenation(<<Terminal("a"), RuleName("U")>>)),       \* S : "a" U
    Rules1(Many(Optional(Terminal("a")))),                         \* S : ("a"?)*
    Rules1(OneOrMore(Many(Terminal("a")))) }                       \* S : ("a"*)+

\* Start rule names drawn in Init: a defined one and an undefined one.
StartRules == {"S", "U"}

RECURSIVE SeqsUpTo(_)
SeqsUpTo(n) ==
  IF n = 0 THEN {<<>>}
  ELSE LET shorter == SeqsUpTo(n - 1)
       IN shorter \cup {Append(s, c) : s \in {t \in shorter : Len(t) = n - 1}, c \in Alphabet}

TokenSeqs == SeqsUpTo(MaxLen)

VARIABLES
  parser,        \* Parser.rules: rule name -> RuleExpression
  start_rule,    \* the start rule name handed to both engines
  tokens,        \* the token sequence handed to both engines
  bt_pc,         \* backtracking_parse: "start", "parsing", "returned"
  stack,         \* the call stack of parse_expr frames
  memo_map,      \* (expression address, token index) -> continuations
  failure_info,  \* FailureCache
  bt_result,     \* what backtracking_parse returned
  gss_pc,        \* gss_parse_tokens: "start", "parsing", "returned", "aborted"
  gss_nodes,     \* the GSSNodes allocated so far; a node is named by its position
  gss,           \* the layers: gss[k + 1] is the code's gss[k]
  gss_result     \* what gss_parse_tokens returned

vars == <<parser, start_rule, tokens, bt_pc, stack, memo_map, failure_info, bt_result,
          gss_pc, gss_nodes, gss, gss_result>>
inputs == <<parser, start_rule, tokens>>
bt_vars == <<bt_pc, stack, memo_map, failure_info, bt_result>>
gss_vars == <<gss_pc, gss_nodes, gss, gss_result>>

(***************************************************************************)
(* Expression addresses.  The engines key on the address of a              *)
(* RuleExpression (ByAddress), so an expression is named by the rule that  *)
(* holds it and the path of child positions from the rule's body.          *)
(* RootRef is the start_expr / root_expr local of the two entry points.    *)
(***************************************************************************)
RootRef == [rule |-> "", path |-> <<>>]
RuleRef(n) == [rule |-> n, path |-> <<>>]
ChildRef(r, k) == [rule |-> r.rule, path |-> Append(r.path, k)]

RECURSIVE Walk(_, _)
Walk(e, path) == IF path = <<>> THEN e ELSE Walk(e.subs[Head(path)], Tail(path))

Expr(r) == IF r = RootRef THEN RuleName(start_rule) ELSE Walk(parser[r.rule], r.path)


(***************************************************************************)
(* Syntax trees.  IntermediateSyntaxTree and SyntaxTree have the same two  *)
(* variants; NoTree stands where a result holds no tree.                   *)
(***************************************************************************)
TokenNode(tok)     == [kind |-> "TokenNode", rule_name |-> "", token |-> tok, subexpressions |-> <<>>]
RuleNode(n, subs)  == [kind |-> "RuleNode", rule_name |-> n, token |-> "", subexpressions |-> subs]
NoTree             == [kind |-> "NoTree", rule_name |-> "", token |-> "", subexpressions |-> <<>>]

RECURSIVE intermediate_to_final(_)
intermediate_to_final(root) ==
  IF root.kind = "RuleNode"
  THEN RuleNode(root.rule_name,
                [k \in 1..Len(root.subexpressions) |->
                   intermediate_to_final(root.subexpressions[k])])
  ELSE TokenNode(root.token)

\* Results of the two entry points: Ok(tree) or one of the errors.
Ok(t)                    == [kind |-> "Ok", tree |-> t, index |-> 0, terminals |-> {}, msg |-> ""]
IncompleteParse(i, ts)   == [kind |-> "IncompleteParse", tree |-> NoTree, index |-> i, terminals |-> ts, msg |-> ""]
OutOfInput(ts)           == [kind |-> "OutOfInput", tree |-> NoTree, index |-> 0, terminals |-> ts, msg |-> ""]
ParseError(m)            == [kind |-> "ParseError", tree |-> NoTree, index |-> 0, terminals |-> {}, msg |-> m]
NoResult                 == [kind |-> "NoResult", tree |-> NoTree, index |-> 0, terminals |-> {}, msg |-> ""]

(***************************************************************************)
(* The backtracking engine.                                                *)
(***************************************************************************)
\* Continuation(next token to parse, trees)
Continuation(i, trees) == [next_index |-> i, trees |-> trees]

\* Mutant of Log: a further index does not clear the failures.
Log_KeepsStaleFailures(fi, index, expected) ==
  IF index >= fi.index
  THEN [failures |-> fi.failures \cup {expected}, index |-> index]
  ELSE fi

\* FailureCache::new and FailureCache::log
FailureCacheNew == [failures |-> {}, index |-> 0]

Log(fi, index, expected) ==
  LET cleared == IF index > fi.index
                 THEN [failures |-> {}, index |-> index]
                 ELSE fi
  IN  IF index = cleared.index
      THEN [cleared EXCEPT !.failures = @ \cup {expected}]
      ELSE cleared

\* A parse_expr activation: its arguments, where it stands, and its locals
\* (continuations, curr_pass; extend_all's iterator over curr_pass and
\* next_pass; the position k in exprs; the closure passes begun).
Frame(e, i) ==
  [expr |-> e, token_index |-> i, pc |-> "enter",
   continuations |-> <<>>, curr_pass |-> <<>>, todo |-> <<>>, next_pass |-> <<>>,
   k |-> 0, passes |-> 0]

Top == stack[Len(stack)]
Popped == SubSeq(stack, 1, Len(stack) - 1)
WithTop(f) == [stack EXCEPT ![Len(stack)] = f]
Call(f, e, i) == Append(WithTop(f), Frame(e, i))

Key(e, i) == <<e, i>>
Memoized(e, i) == Key(e, i) \in DOMAIN memo_map
Insert(e, i, conts) == (Key(e, i) :> conts) @@ memo_map

Running(kind) ==
  /\ bt_pc = "parsing"
  /\ stack # <<>>
  /\ Top.pc = "enter"
  /\ ~Memoized(Top.expr, Top.token_index)
  /\ Expr(Top.expr).kind = kind

At(pc) ==
  /\ bt_pc = "parsing"
  /\ stack # <<>>
  /\ Top.pc = pc

\* backtracking_parse, up to its call of parse_expr on start_expr at 0.
backtracking_parse_call ==
  /\ bt_pc = "start"
  /\ bt_pc' = "parsing"
  /\ stack' = <<Frame(RootRef, 0)>>
  /\ UNCHANGED <<inputs, gss_vars, memo_map, failure_info, bt_result>>

\* parse_expr: the key is in memo_map already.
parse_expr_memoized ==
  /\ At("enter")
  /\ Memoized(Top.expr, Top.token_index)
  /\ stack' = Popped
  /\ UNCHANGED <<inputs, gss_vars, bt_pc, memo_map, failure_info, bt_result>>

\* The continuations of a Terminal at token_index.
TerminalHit(term, i) == i < Len(tokens) /\ Matches(term, tokens[i + 1])

TerminalContinuations(term, i) ==
  IF TerminalHit(term, i)
  THEN <<Continuation(i + 1, <<TokenNode(tokens[i + 1])>>)>>
  ELSE <<>>

parse_expr_Terminal ==
  /\ Running("Terminal")
  /\ LET term == Expr(Top.expr).pat
         i    == Top.token_index
     IN  /\ memo_map' = Insert(Top.expr, i, TerminalContinuations(term, i))
         /\ failure_info' = IF TerminalHit(term, i) THEN failure_info
                            ELSE Log(failure_info, i, term)
  /\ stack' = Popped
  /\ UNCHANGED <<inputs, gss_vars, bt_pc, bt_result>>

\* RuleName: parser.rules.get(rule_name) is None, the error leaves every
\* caller through `?`; Some(rule_expr), parse_expr is called on it.
UnknownRule(name) == name \notin DOMAIN parser

\* Mutant of parse_expr_RuleName: an undefined rule_name is not an error but
\* a rule without continuations.
parse_expr_RuleName_SkipsUnknown ==
  /\ Running("RuleName")
  /\ LET rule_name == Expr(Top.expr).name
     IN  IF UnknownRule(rule_name)
         THEN /\ stack' = Popped
              /\ memo_map' = Insert(Top.expr, Top.token_index, <<>>)
         ELSE /\ stack' = Call([Top EXCEPT !.pc = "rule"], RuleRef(rule_name), Top.token_index)
              /\ UNCHANGED memo_map
  /\ UNCHANGED <<inputs, gss_vars, bt_pc, bt_result, failure_info>>

parse_expr_RuleName ==
  /\ Running("RuleName")
  /\ LET rule_name == Expr(Top.expr).name
     IN  IF UnknownRule(rule_name)
         THEN /\ stack' = <<>>
              /\ bt_pc' = "returned"
              /\ bt_result' = ParseError("Rule not found")
         ELSE /\ stack' = Call([Top EXCEPT !.pc = "rule"], RuleRef(rule_name), Top.token_index)
              /\ UNCHANGED <<bt_pc, bt_result>>
  /\ UNCHANGED <<inputs, gss_vars, memo_map, failure_info>>

\* Each continuation of the rule's body, its trees under one RuleNode.
WrapRule(rule_name, conts) ==
  [c \in 1..Len(conts) |->
     Continuation(conts[c].next_index, <<RuleNode(rule_name, conts[c].trees)>>)]

parse_expr_RuleName_return ==
  /\ At("rule")
  /\ LET rule_name == Expr(Top.expr).name
         i == Top.token_index
     IN  memo_map' = Insert(Top.expr, i, WrapRule(rule_name, memo_map[Key(RuleRef(rule_name), i)]))
  /\ stack' = Popped
  /\ UNCHANGED <<inputs, gss_vars, bt_pc, failure_info, bt_result>>

\* Mutant of ExtendWith: final_trees starts empty instead of as old_trees.
ExtendWith_DropsOldTrees(old, conts) ==
  [c \in 1..Len(conts) |-> Continuation(conts[c].next_index, conts[c].trees)]

\* extend_all: the continuations of expr at `index`, each after old_trees.
ExtendWith(old, conts) ==
  [c \in 1..Len(conts) |-> Continuation(conts[c].next_index, old.trees \o conts[c].trees)]

\* The expression extend_all is called on: exprs[k] of a Concatenation,
\* inner_expr of a Many or OneOrMore.
ExtendExpr(f) ==
  IF Expr(f.expr).kind = "Concatenation" THEN ChildRef(f.expr, f.k) ELSE ChildRef(f.expr, 1)

\* Concatenation: curr_pass = [(token_index, [])], then extend_all per expr.
parse_expr_Concatenation ==
  /\ Running("Concatenation")
  /\ LET start == <<Continuation(Top.token_index, <<>>)>>
     IN  stack' = WithTop([Top EXCEPT !.pc = "extend", !.curr_pass = start, !.k = 1,
                                      !.todo = start, !.next_pass = <<>>])
  /\ UNCHANGED <<inputs, gss_vars, bt_pc, memo_map, failure_info, bt_result>>

\* extend_all's loop body, first half: parse_expr(expr, index) for the next
\* continuation of curr_pass.
extend_all_call ==
  /\ At("extend")
  /\ Top.todo # <<>>
  /\ stack' = Call([Top EXCEPT !.pc = "extended"], ExtendExpr(Top), Head(Top.todo).next_index)
  /\ UNCHANGED <<inputs, gss_vars, bt_pc, memo_map, failure_info, bt_result>>

\* extend_all's loop body, second half: next_pass.append(...).
extend_all_append ==
  /\ At("extended")
  /\ LET old   == Head(Top.todo)
         conts == memo_map[Key(ExtendExpr(Top), old.next_index)]
     IN  stack' = WithTop([Top EXCEPT !.pc = "extend", !.todo = Tail(@),
                                      !.next_pass = @ \o ExtendWith(old, conts)])
  /\ UNCHANGED <<inputs, gss_vars, bt_pc, memo_map, failure_info, bt_result>>

\* Concatenation: extend_all returned; the next expr, or the end of the arm.
parse_expr_Concatenation_next ==
  /\ At("extend")
  /\ Top.todo = <<>>
  /\ Expr(Top.expr).kind = "Concatenation"
  /\ IF Top.k < Len(Expr(Top.expr).subs)
     THEN /\ stack' = WithTop([Top EXCEPT !.curr_pass = Top.next_pass, !.k = @ + 1,
                                          !.todo = Top.next_pass, !.next_pass = <<>>])
          /\ UNCHANGED memo_map
     ELSE /\ memo_map' = Insert(Top.expr, Top.token_index, Top.next_pass)
          /\ stack' = Popped
  /\ UNCHANGED <<inputs, gss_vars, bt_pc, failure_info, bt_result>>

\* Alternatives: parse_expr on exprs[0].
parse_expr_Alternatives ==
  /\ Running("Alternatives")
  /\ stack' = Call([Top EXCEPT !.pc = "alternative", !.k = 1], ChildRef(Top.expr, 1), Top.token_index)
  /\ UNCHANGED <<inputs, gss_vars, bt_pc, memo_map, failure_info, bt_result>>

\* Alternatives: continuations.append(memo_map[expr]), then the next expr
\* or the end of the arm.
parse_expr_Alternatives_next ==
  /\ At("alternative")
  /\ LET i     == Top.token_index
         conts == Top.continuations \o memo_map[Key(ChildRef(Top.expr, Top.k), i)]
     IN  IF Top.k < Len(Expr(Top.expr).subs)
         THEN /\ stack' = Call([Top EXCEPT !.continuations = conts, !.k = @ + 1],
                               ChildRef(Top.expr, Top.k + 1), i)
              /\ UNCHANGED memo_map
         ELSE /\ memo_map' = Insert(Top.expr, i, conts)
              /\ stack' = Popped
  /\ UNCHANGED <<inputs, gss_vars, bt_pc, failure_info, bt_result>>

\* Optional: the empty continuation, then parse_expr on the child.
parse_expr_Optional ==
  /\ Running("Optional")
  /\ stack' = Call([Top EXCEPT !.pc = "optional",
                               !.continuations = <<Continuation(Top.token_index, <<>>)>>],
                   ChildRef(Top.expr, 1), Top.token_index)
  /\ UNCHANGED <<inputs, gss_vars, bt_pc, memo_map, failure_info, bt_result>>

parse_expr_Optional_return ==
  /\ At("optional")
  /\ LET i == Top.token_index
     IN  memo_map' = Insert(Top.expr, i,
                            Top.continuations \o memo_map[Key(ChildRef(Top.expr, 1), i)])
  /\ stack' = Popped
  /\ UNCHANGED <<inputs, gss_vars, bt_pc, failure_info, bt_result>>

\* Many | OneOrMore: the empty continuation for Many only; curr_pass starts
\* as [(token_index, [])], which is not empty, so the loop is entered.
ClosureStart(kind, i) == IF kind = "Many" THEN <<Continuation(i, <<>>)>> ELSE <<>>

parse_expr_Many ==
  /\ bt_pc = "parsing"
  /\ stack # <<>>
  /\ Top.pc = "enter"
  /\ ~Memoized(Top.expr, Top.token_index)
  /\ Expr(Top.expr).kind \in {"Many", "OneOrMore"}
  /\ LET start == <<Continuation(Top.token_index, <<>>)>>
     IN  stack' = WithTop([Top EXCEPT !.pc = "extend", !.curr_pass = start,
                                      !.continuations = ClosureStart(Expr(Top.expr).kind, Top.token_index),
                                      !.todo = start, !.next_pass = <<>>, !.passes = 1])
  /\ UNCHANGED <<inputs, gss_vars, bt_pc, memo_map, failure_info, bt_result>>

\* The closure loop goes on while curr_pass is not empty.
LoopAgain(curr_pass) == curr_pass # <<>>

\* Many | OneOrMore: extend_all returned; continuations.append(curr_pass)
\* and the loop test.  The model follows MaxPasses passes of one loop.
parse_expr_Many_pass ==
  /\ At("extend")
  /\ Top.todo = <<>>
  /\ Expr(Top.expr).kind \in {"Many", "OneOrMore"}
  /\ LET curr == Top.next_pass
         conts == Top.continuations \o curr
     IN  IF LoopAgain(curr)
         THEN /\ Top.passes < MaxPasses
              /\ stack' = WithTop([Top EXCEPT !.curr_pass = curr, !.continuations = conts,
                                              !.todo = curr, !.next_pass = <<>>,
                                              !.passes = @ + 1])
              /\ UNCHANGED memo_map
         ELSE /\ memo_map' = Insert(Top.expr, Top.token_index, conts)
              /\ stack' = Popped
  /\ UNCHANGED <<inputs, gss_vars, bt_pc, failure_info, bt_result>>

\* Mutant of Find: the first continuation, wherever it ends.
Find_AcceptsPrefix(conts, n) == IF conts = <<>> THEN 0 ELSE 1

\* Mutant of FailureResult: `<=` for `<` in the test of the failure index.
FailureResult_OffByOne(fi, n) ==
  IF fi.index <= n
  THEN IncompleteParse(fi.index, fi.failures)
  ELSE OutOfInput(fi.failures)

\* backtracking_parse after parse_expr returned Ok(()): the first
\* continuation of start_expr at 0 that consumed every token, or the error
\* the failure cache describes.
Find(conts, n) ==
  LET hits == {c \in 1..Len(conts) : conts[c].next_index = n}
  IN  IF hits = {} THEN 0 ELSE CHOOSE c \in hits : \A d \in hits : c <= d

FailureResult(fi, n) ==
  IF fi.index < n
  THEN IncompleteParse(fi.index, fi.failures)
  ELSE OutOfInput(fi.failures)

ParseResult(conts, fi, n) ==
  IF Find(conts, n) # 0
  THEN Ok(intermediate_to_final(conts[Find(conts, n)].trees[1]))
  ELSE FailureResult(fi, n)

backtracking_parse_return ==
  /\ bt_pc = "parsing"
  /\ stack = <<>>
  /\ bt_pc' = "returned"
  /\ bt_result' = ParseResult(memo_map[Key(RootRef, 0)], failure_info, Len(tokens))
  /\ UNCHANGED <<inputs, gss_vars, stack, memo_map, failure_info>>

BtNext ==
  \/ backtracking_parse_call
  \/ parse_expr_memoized
  \/ parse_expr_Terminal
  \/ parse_expr_RuleName
  \/ parse_expr_RuleName_return
  \/ parse_expr_Concatenation
  \/ extend_all_call
  \/ extend_all_append
  \/ parse_expr_Concatenation_next
  \/ parse_expr_Alternatives
  \/ parse_expr_Alternatives_next
  \/ parse_expr_Optional
  \/ parse_expr_Optional_return
  \/ parse_expr_Many
  \/ parse_expr_Many_pass
  \/ backtracking_parse_return


(***************************************************************************)
(* The GSS engine.                                                         *)
(***************************************************************************)
\* GSSParentData
Index(i) == [tag |-> "Index", i |-> i]
NoData   == [tag |-> "NoData", i |-> 0]
Done     == [tag |-> "Done", i |-> 0]

\* GSSNode; parent = 0 is None, otherwise the parent's position in gss_nodes.
\* Rc::new(GSSNode {..}) appends to the nodes; two nodes with equal fields
\* stay two nodes (backtrace_to_tree keys its map by HashableRc, the pointer).
GSSNode(e, parent, pd) == [expr |-> e, parent |-> parent, parent_data |-> pd]
\* GSSLink; prev = 0 is the root link, otherwise a position in the layer before.
GSSLink(node, prev) == [node |-> node, prev |-> prev]

\* What a recursive call hands back: the nodes allocated, the Vec returned,
\* and the error ("" for Ok).  StackOverflow is the model's word for a
\* recursion deeper than MaxDepth.
Ret(nodes, out, err) == [nodes |-> nodes, out |-> out, err |-> err]
StackOverflow == "stack overflow"

\* `v` evaluated once and handed to F.
Bind(v, F(_)) == CHOOSE y \in {F(x) : x \in {v}} : TRUE

\* The `?` of the code: an Err ends the caller with that Err, an Ok goes on.
Try(r, F(_)) == Bind(r, LAMBDA x : IF x.err # "" THEN x ELSE F(x))

\* a.into_iter().chain(b.into_iter()) of two results, b computed on the
\* nodes a left behind.
Chained(a, B(_)) ==
  Try(a, LAMBDA x : Try(B(x.nodes), LAMBDA y : Ret(y.nodes, x.out \o y.out, "")))

RECURSIVE resolve_to_terminals(_, _, _)
RECURSIVE advance_auto(_, _, _, _)
RECURSIVE resolve_alternatives(_, _, _, _)

\* resolve_to_terminals(Rc::new(GSSNode {..}), parser): the new node is
\* appended to the nodes and resolved.
resolve_new(nodes, gss_node, d) ==
  Bind(Append(nodes, gss_node), LAMBDA ns : resolve_to_terminals(ns, Len(ns), d))

\* The Alternatives arm of resolve_to_terminals: the sub_exprs from the k-th
\* on, in order, the first Err ending the collect.
resolve_alternatives(nodes, node, k, d) ==
  IF k > Len(Expr(nodes[node].expr).subs)
  THEN Ret(nodes, <<>>, "")
  ELSE Chained(resolve_new(nodes, GSSNode(ChildRef(nodes[node].expr, k), node, NoData), d - 1),
               LAMBDA ns : resolve_alternatives(ns, node, k + 1, d))

resolve_to_terminals(nodes, node, d) ==
  IF d = 0 THEN Ret(nodes, <<>>, StackOverflow)
  ELSE
  LET r == nodes[node].expr
      e == Expr(r)
  IN  CASE e.kind = "Terminal" -> Ret(nodes, <<node>>, "")
        [] e.kind = "RuleName" ->
             IF UnknownRule(e.name)
             THEN Ret(nodes, <<>>, "Cannot recognize rule")
             ELSE resolve_new(nodes, GSSNode(RuleRef(e.name), node, NoData), d - 1)
        [] e.kind = "Concatenation" ->
             resolve_new(nodes, GSSNode(ChildRef(r, 1), node, Index(0)), d - 1)
        [] e.kind = "Alternatives" -> resolve_alternatives(nodes, node, 1, d)
        [] e.kind = "Many" -> advance_auto(nodes, node, NoData, d - 1)
        [] e.kind = "Optional" ->
             Chained(resolve_new(nodes, GSSNode(ChildRef(r, 1), node, NoData), d - 1),
                     LAMBDA ns : advance_auto(ns, node, NoData, d - 1))
        [] e.kind = "OneOrMore" ->
             resolve_new(nodes, GSSNode(ChildRef(r, 1), node, NoData), d - 1)

advance_auto(nodes, node, caller_parent_data, d) ==
  IF d = 0 THEN Ret(nodes, <<>>, StackOverflow)
  ELSE IF caller_parent_data = Done THEN Ret(nodes, <<>>, "")
  ELSE
  LET n == nodes[node]
      e == Expr(n.expr)
  IN  CASE e.kind = "Terminal" -> Ret(nodes, <<>>, "Tried to advance terminal without token")
        [] e.kind = "RuleName" ->
             IF n.parent # 0
             THEN advance_auto(nodes, n.parent, n.parent_data, d - 1)
             ELSE Ret(Append(nodes, GSSNode(n.expr, 0, Done)), <<Len(nodes) + 1>>, "")
        [] e.kind = "Concatenation" ->
             IF caller_parent_data.tag = "Index"
             THEN LET i == caller_parent_data.i
                  IN  IF i + 1 >= Len(e.subs)
                      THEN IF n.parent = 0
                           THEN Ret(nodes, <<>>, "Concatenation without parent")
                           ELSE advance_auto(nodes, n.parent, n.parent_data, d - 1)
                      ELSE resolve_new(nodes, GSSNode(ChildRef(n.expr, i + 2), node, Index(i + 1)),
                                       d - 1)
             ELSE Ret(nodes, <<>>, "Tried to advance Concatenation without index")
        [] e.kind \in {"Alternatives", "Optional"} ->
             IF n.parent # 0
             THEN advance_auto(nodes, n.parent, n.parent_data, d - 1)
             ELSE Ret(nodes, <<>>, "Alternatives or Optional lack parent")
        [] e.kind \in {"OneOrMore", "Many"} ->
             IF n.parent # 0
             THEN Chained(resolve_new(nodes, GSSNode(ChildRef(n.expr, 1), node, NoData), d - 1),
                          LAMBDA ns : advance_auto(ns, n.parent, n.parent_data, d - 1))
             ELSE Ret(nodes, <<>>, "OneOrMore or Many lack parent")

\* Mutant of advance_token: a matched terminal hands back its parent node
\* instead of what advance_auto finds above it.
advance_token_ReturnsParent(nodes, node, token, d) ==
  LET n == nodes[node]
      e == Expr(n.expr)
  IN  IF n.parent_data = Done THEN Ret(nodes, <<>>, "")
      ELSE IF e.kind = "Terminal" /\ Matches(e.pat, token)
           THEN IF n.parent # 0
                THEN Ret(nodes, <<n.parent>>, "")
                ELSE Ret(nodes, <<>>, "Terminal Expression has no parent")
           ELSE IF e.kind = "Terminal" THEN Ret(nodes, <<>>, "")
           ELSE Ret(nodes, <<>>, "Tried to feed token to non terminal expresison")

advance_token(nodes, node, token, d) ==
  LET n == nodes[node]
      e == Expr(n.expr)
  IN  IF n.parent_data = Done THEN Ret(nodes, <<>>, "")
      ELSE IF e.kind = "Terminal" /\ Matches(e.pat, token)
           THEN IF n.parent # 0
                THEN advance_auto(nodes, n.parent, n.parent_data, d - 1)
                ELSE Ret(nodes, <<>>, "Terminal Expression has no parent")
           ELSE IF e.kind = "Terminal" THEN Ret(nodes, <<>>, "")
           ELSE Ret(nodes, <<>>, "Tried to feed token to non terminal expresison")

\* prev of the links made from `out`: each new node linked to `prev`.
Links(out, prev) == [k \in 1..Len(out) |-> GSSLink(out[k], prev)]

\* The body of the main loop for one token: advance_token on each link of
\* the last layer from the pos-th on; Ret.out is next_layer.
RECURSIVE next_layer(_, _, _, _)
next_layer(nodes, layer, pos, token) ==
  IF pos > Len(layer)
  THEN Ret(nodes, <<>>, "")
  ELSE Try(advance_token(nodes, layer[pos].node, token, MaxDepth),
           LAMBDA first :
             Try(next_layer(first.nodes, layer, pos + 1, token),
                 LAMBDA rest : Ret(rest.nodes, Links(first.out, pos) \o rest.out, "")))

\* Parser::get_backtrace.  The chain of prev[0] from the link at position
\* pos of layer l back to the first layer, as nodes in layer order.
RECURSIVE chain(_, _, _)
chain(layers, l, pos) ==
  IF l = 0 THEN <<>>
  ELSE Append(chain(layers, l - 1, layers[l][pos].prev), layers[l][pos].node)

FinalLinks(nodes, layers) ==
  LET last == layers[Len(layers)]
  IN  {pos \in 1..Len(last) : nodes[last[pos].node].parent_data = Done}

\* Mutant of get_backtrace: only the root link's node is dropped, the final
\* link's node stays in the backtrace.
get_backtrace_KeepsFinal(nodes, layers) ==
  LET final_links == FinalLinks(nodes, layers)
  IN  IF final_links = {}
      THEN Ret(nodes, <<>>, "Unsuccessful Parse...")
      ELSE IF Cardinality(final_links) = 1
      THEN Ret(nodes, chain(layers, Len(layers), CHOOSE pos \in final_links : TRUE), "")
      ELSE Ret(nodes, <<>>, "Ambiguous Parse...")

\* Ret.out is the backtrace: the chain with its two ends dropped, the root
\* link's node (not part of `chain`) and the final link's node.
get_backtrace(nodes, layers) ==
  LET final_links == FinalLinks(nodes, layers)
  IN  IF final_links = {}
      THEN Ret(nodes, <<>>, "Unsuccessful Parse...")
      ELSE IF Cardinality(final_links) = 1
      THEN LET final_link == CHOOSE pos \in final_links : TRUE
               backtrace == chain(layers, Len(layers), final_link)
           IN  Ret(nodes, SubSeq(backtrace, 1, Len(backtrace) - 1), "")
      ELSE Ret(nodes, <<>>, "Ambiguous Parse...")

\* Parser::backtrace_to_tree.  `subtrees` maps a GSSNode to its intermediate
\* RuleNode; the subexpressions of one are handles, a token or the key of
\* another entry of the map (the Rc<RefCell<..>> the code shares).
TokenHandle(tok) == [node |-> 0, token |-> tok]
NodeHandle(n)    == [node |-> n, token |-> ""]
TreeState(subtrees, root, err) == [subtrees |-> subtrees, root |-> root, err |-> err]

\* The `while let Some(parent) = &curr_node.parent` loop.
RECURSIVE ascend(_, _, _, _)
ascend(nodes, st, curr_node, curr_subtree) ==
  LET parent == nodes[curr_node].parent
  IN  IF parent = 0 THEN st
      ELSE
      LET is_rule == Expr(nodes[parent].expr).kind = "RuleName"
          parent_unprocessed == parent \notin DOMAIN st.subtrees
          inserted == IF parent_unprocessed
                      THEN (parent :> [rule_name |-> Expr(nodes[parent].expr).name,
                                       subexpressions |-> <<>>]) @@ st.subtrees
                      ELSE st.subtrees
          pushed == [inserted EXCEPT ![parent].subexpressions = Append(@, curr_subtree)]
          subtrees == IF is_rule THEN pushed ELSE st.subtrees
          next_subtree == IF is_rule THEN NodeHandle(parent) ELSE curr_subtree
      IN  IF is_rule /\ ~parent_unprocessed
          THEN [st EXCEPT !.subtrees = subtrees]
          ELSE IF nodes[parent].parent = 0
               THEN IF parent \in DOMAIN subtrees
                    THEN Bind(TreeState(subtrees, parent, st.err),
                              LAMBDA next : ascend(nodes, next, parent, next_subtree))
                    ELSE TreeState(subtrees, st.root, "panic: Known to contain node")
               ELSE Bind(TreeState(subtrees, st.root, st.err),
                         LAMBDA next : ascend(nodes, next, parent, next_subtree))

\* The `for (node, token) in backtrace.zip(tokens)` loop, from position k on.
RECURSIVE build_subtrees(_, _, _, _, _)
build_subtrees(nodes, st, backtrace, toks, k) ==
  IF k > Len(backtrace) \/ st.err # "" THEN st
  ELSE IF Expr(nodes[backtrace[k]].expr).kind = "Terminal"
       THEN Bind(ascend(nodes, st, backtrace[k], TokenHandle(toks[k])),
                 LAMBDA next : build_subtrees(nodes, next, backtrace, toks, k + 1))
       ELSE [st EXCEPT !.err = "Non Terminal in backtrace"]

\* intermediate_to_final of gss_parser.rs, from a handle.
RECURSIVE gss_intermediate_to_final(_, _)
gss_intermediate_to_final(subtrees, h) ==
  IF h.node = 0
  THEN TokenNode(h.token)
  ELSE RuleNode(subtrees[h.node].rule_name,
                [k \in 1..Len(subtrees[h.node].subexpressions) |->
                   gss_intermediate_to_final(subtrees, subtrees[h.node].subexpressions[k])])

backtrace_to_tree(nodes, backtrace, toks) ==
  IF Len(backtrace) # Len(toks)
  THEN ParseError("Backtrace and token stream have different lengths")
  ELSE Bind(build_subtrees(nodes, TreeState(<<>>, 0, ""), backtrace, toks, 1),
            LAMBDA st :
              IF st.err # "" THEN ParseError(st.err)
              ELSE IF st.root = 0 THEN ParseError("No root found at end of parsing")
              ELSE Ok(gss_intermediate_to_final(st.subtrees, NodeHandle(st.root))))

\* How an Err (or the exhausted call stack) ends gss_parse_tokens.  gss_nodes
\* keeps the nodes the failed call had allocated.
GssFails(r) ==
  /\ gss_pc' = IF r.err = StackOverflow THEN "aborted" ELSE "returned"
  /\ gss_result' = IF r.err = StackOverflow THEN NoResult ELSE ParseError(r.err)
  /\ gss_nodes' = r.nodes
  /\ UNCHANGED gss

\* gss_parse_tokens: root_link and gss[0].
gss_parse_tokens_seed ==
  /\ gss_pc = "start"
  /\ \E r \in {resolve_to_terminals(<<GSSNode(RootRef, 0, NoData)>>, 1, MaxDepth)} :
         IF r.err # ""
         THEN GssFails(r)
         ELSE /\ gss_nodes' = r.nodes
              /\ gss' = <<Links(r.out, 0)>>
              /\ gss_pc' = "parsing"
              /\ UNCHANGED gss_result
  /\ UNCHANGED <<inputs, bt_vars>>

\* Mutant of gss_parse_tokens_token: an empty next_layer is not pushed.
gss_parse_tokens_token_SkipsEmptyLayer ==
  /\ gss_pc = "parsing"
  /\ Len(gss) <= Len(tokens)
  /\ \E r \in {next_layer(gss_nodes, gss[Len(gss)], 1, tokens[Len(gss)])} :
         IF r.err # ""
         THEN GssFails(r)
         ELSE /\ gss_nodes' = r.nodes
              /\ gss' = IF r.out = <<>> THEN gss ELSE Append(gss, r.out)
              /\ UNCHANGED <<gss_pc, gss_result>>
  /\ UNCHANGED <<inputs, bt_vars>>

\* gss_parse_tokens: one turn of `for token in &tokens`.
gss_parse_tokens_token ==
  /\ gss_pc = "parsing"
  /\ Len(gss) <= Len(tokens)
  /\ \E r \in {next_layer(gss_nodes, gss[Len(gss)], 1, tokens[Len(gss)])} :
         IF r.err # ""
         THEN GssFails(r)
         ELSE /\ gss_nodes' = r.nodes
              /\ gss' = Append(gss, r.out)
              /\ UNCHANGED <<gss_pc, gss_result>>
  /\ UNCHANGED <<inputs, bt_vars>>

\* gss_parse_tokens: get_backtrace and backtrace_to_tree.
GssResult(nodes, layers, toks) ==
  Bind(get_backtrace(nodes, layers),
       LAMBDA bt : IF bt.err # "" THEN ParseError(bt.err)
                   ELSE backtrace_to_tree(nodes, bt.out, toks))

gss_parse_tokens_return ==
  /\ gss_pc = "parsing"
  /\ Len(gss) = Len(tokens) + 1
  /\ gss_pc' = "returned"
  /\ gss_result' = GssResult(gss_nodes, gss, tokens)
  /\ UNCHANGED <<inputs, bt_vars, gss_nodes, gss>>

GssNext ==
  \/ gss_parse_tokens_seed
  \/ gss_parse_tokens_token
  \/ gss_parse_tokens_return

Init ==
  /\ parser \in Parsers
  /\ start_rule \in StartRules
  /\ tokens \in TokenSeqs
  /\ bt_pc = "start"
  /\ stack = <<>>
  /\ memo_map = <<>>
  /\ failure_info = FailureCacheNew
  /\ bt_result = NoResult
  /\ gss_pc = "start"
  /\ gss_nodes = <<>>
  /\ gss = <<>>
  /\ gss_result = NoResult

Next == BtNext \/ GssNext

Spec == Init /\ [][Next]_vars

\* gss_parse_tokens is synchronous code running on its caller's thread: once
\* called, each of its steps that can be taken is taken.
LiveSpec == Spec /\ WF_vars(GssNext)

(***************************************************************************)
(* Reference semantics of rule expressions, used to state the claims: the  *)
(* positions a derivation of an expression from position i can end at, and *)
(* the number of derivations (counted up to 2) between two positions.      *)
(***************************************************************************)
RECURSIVE Ends(_, _)
RECURSIVE EndsSeq(_, _, _)
RECURSIVE EndsClosure(_, _)

Ends(e, i) ==
  CASE e.kind = "Terminal" ->
         IF i < Len(tokens) /\ tokens[i + 1] = e.pat THEN {i + 1} ELSE {}
    [] e.kind = "RuleName" ->
         IF e.name \in DOMAIN parser THEN Ends(parser[e.name], i) ELSE {}
    [] e.kind = "Concatenation" -> EndsSeq(e.subs, 1, {i})
    [] e.kind = "Alternatives" -> UNION {Ends(e.subs[k], i) : k \in 1..Len(e.subs)}
    [] e.kind = "Optional" -> {i} \cup Ends(e.subs[1], i)
    [] e.kind = "Many" -> EndsClosure(e.subs[1], {i})
    [] e.kind = "OneOrMore" -> EndsClosure(e.subs[1], Ends(e.subs[1], i))

EndsSeq(es, k, from) ==
  IF k > Len(es) THEN from
  ELSE EndsSeq(es, k + 1, UNION {Ends(es[k], j) : j \in from})

EndsClosure(e, from) ==
  LET more == from \cup UNION {Ends(e, j) : j \in from}
  IN  IF more = from THEN from ELSE EndsClosure(e, more)

\* The reference recognizer: some derivation of the start rule consumes
\* exactly all of tokens.
Accepts == Len(tokens) \in Ends(RuleName(start_rule), 0)

Sat(x) == IF x > 2 THEN 2 ELSE x

RECURSIVE Derivations(_, _, _)
RECURSIVE DerivationsSeq(_, _, _, _)
RECURSIVE DerivationsMany(_, _, _)
RECURSIVE SumOver(_, _, _, _, _)

\* Sum over m in lo..hi of Op-specific products, saturating at 2:
\* which = "seq": Derivations(es[k], i, m) * DerivationsSeq(es, k + 1, m, j)
\* which = "many": Derivations(e, i, m) * DerivationsMany(e, m, j)
SumOver(args, i, j, lo, hi) ==
  IF lo > hi THEN 0
  ELSE LET left == IF args.which = "seq"
                   THEN Derivations(args.es[args.k], i, lo)
                   ELSE Derivations(args.e, i, lo)
           term == IF left = 0 THEN 0
                   ELSE IF args.which = "seq"
                        THEN left * DerivationsSeq(args.es, args.k + 1, lo, j)
                        ELSE left * DerivationsMany(args.e, lo, j)
       IN  Sat(term + SumOver(args, i, j, lo + 1, hi))

Derivations(e, i, j) ==
  CASE e.kind = "Terminal" ->
         IF j = i + 1 /\ i < Len(tokens) /\ tokens[i + 1] = e.pat THEN 1 ELSE 0
    [] e.kind = "RuleName" ->
         IF e.name \in DOMAIN parser THEN Derivations(parser[e.name], i, j) ELSE 0
    [] e.kind = "Concatenation" -> DerivationsSeq(e.subs, 1, i, j)
    [] e.kind = "Alternatives" ->
         LET RECURSIVE alt(_)
             alt(k) == IF k > Len(e.subs) THEN 0
                       ELSE Sat(Derivations(e.subs[k], i, j) + alt(k + 1))
         IN  alt(1)
    [] e.kind = "Optional" ->
         Sat((IF i = j THEN 1 ELSE 0) + Derivations(e.subs[1], i, j))
    [] e.kind = "Many" -> DerivationsMany(e.subs[1], i, j)
    [] e.kind = "OneOrMore" ->
         SumOver([which |-> "many", e |-> e.subs[1]], i, j, i, j)

DerivationsSeq(es, k, i, j) ==
  IF k > Len(es) THEN (IF i = j THEN 1 ELSE 0)
  ELSE SumOver([which |-> "seq", es |-> es, k |-> k], i, j, i, j)

\* Zero or more repetitions of e from i to j.  A repetition that matches no
\* token can be inserted any number of times: infinitely many derivations.
DerivationsMany(e, i, j) ==
  LET proper == Sat((IF i = j THEN 1 ELSE 0)
                    + SumOver([which |-> "many", e |-> e], i, j, i + 1, j))
  IN  IF proper > 0 /\ Derivations(e, i, i) > 0 THEN 2 ELSE proper

\* At most one derivation of the start rule over all of tokens.
Unambiguous == Derivations(RuleName(start_rule), 0, Len(tokens)) <= 1

\* Parsers to which the claims' preconditions refer.
RECURSIVE RuleNamesIn(_)
RuleNamesIn(e) ==
  IF e.kind = "RuleName" THEN {e.name}
  ELSE UNION {RuleNamesIn(e.subs[k]) : k \in 1..Len(e.subs)}

AllRulesDefined == \A n \in DOMAIN parser : RuleNamesIn(parser[n]) \subseteq DOMAIN parser

\* Trees: the token leaves left to right, and the rule names of RuleNodes.
RECURSIVE Leaves(_)
RECURSIVE LeavesOfAll(_)
Leaves(t) == IF t.kind = "TokenNode" THEN <<t.token>> ELSE LeavesOfAll(t.subexpressions)
LeavesOfAll(ts) == IF ts = <<>> THEN <<>> ELSE Leaves(Head(ts)) \o LeavesOfAll(Tail(ts))

RECURSIVE RuleNamesOf(_)
RuleNamesOf(t) ==
  IF t.kind = "TokenNode" THEN {}
  ELSE {t.rule_name} \cup UNION {RuleNamesOf(t.subexpressions[k]) : k \in 1..Len(t.subexpressions)}

BtReturned == bt_pc = "returned"
GssReturned == gss_pc = "returned"

(***************************************************************************)
(* The claims.                                                             *)
(***************************************************************************)
TreeOfInput(result) ==
  /\ Leaves(result.tree) = tokens
  /\ RuleNamesOf(result.tree) \subseteq DOMAIN parser

\* C1: whenever backtracking_parse or gss_parse_tokens returns Ok(tree), the
\* TokenNode leaves of the tree, left to right, are exactly the tokens, and
\* every RuleNode's rule_name is a key of the parser's rule map.
C1_OkTreeSpellsTokens ==
  /\ (BtReturned /\ bt_result.kind = "Ok") => TreeOfInput(bt_result)
  /\ (GssReturned /\ gss_result.kind = "Ok") => TreeOfInput(gss_result)

\* Both engines returned a tree over three tokens, with a RuleNode under the root's.
C1_Witness ==
  /\ BtReturned /\ bt_result.kind = "Ok"
  /\ GssReturned /\ gss_result.kind = "Ok"
  /\ Len(tokens) = 3
  /\ "X" \in RuleNamesOf(bt_result.tree) \cap RuleNamesOf(gss_result.tree)

RECURSIVE WithoutEmptyRules(_)
RECURSIVE WithoutEmptyRulesAll(_)
WithoutEmptyRules(t) ==
  IF t.kind = "TokenNode" THEN t
  ELSE RuleNode(t.rule_name, WithoutEmptyRulesAll(t.subexpressions))
WithoutEmptyRulesAll(ts) ==
  IF ts = <<>> THEN <<>>
  ELSE IF Leaves(Head(ts)) = <<>>
       THEN WithoutEmptyRulesAll(Tail(ts))
       ELSE <<WithoutEmptyRules(Head(ts))>> \o WithoutEmptyRulesAll(Tail(ts))

EnginesAgree ==
  \/ /\ bt_result.kind = "Ok"
     /\ gss_result.kind = "Ok"
     /\ gss_result.tree = WithoutEmptyRules(bt_result.tree)
  \/ /\ bt_result.kind # "Ok"
     /\ gss_result.kind # "Ok"

\* C3 as claimed: on every unambiguous input, the empty token sequence
\* included, both engines return Ok with trees equal once the RuleNodes
\* without token leaves are removed from the backtracking tree, or both
\* return Err.
C3_EnginesAgree ==
  (BtReturned /\ GssReturned /\ Unambiguous) => EnginesAgree

\* The GSS outcome after the last token, by the number of Done links of the
\* last layer.
DoneLinks == Cardinality(FinalLinks(gss_nodes, gss))

\* C4 as claimed: after all tokens are consumed, no Done link in the last
\* layer gives the unsuccessful-parse error, two or more the ambiguity
\* error, exactly one Ok with a tree.
C4_OutcomeByDoneLinks ==
  (GssReturned /\ Len(gss) = Len(tokens) + 1) =>
     /\ DoneLinks = 0 => gss_result = ParseError("Unsuccessful Parse...")
     /\ DoneLinks >= 2 => gss_result = ParseError("Ambiguous Parse...")
     /\ DoneLinks = 1 => gss_result.kind = "Ok"

\* C5 as claimed: on the empty token sequence, with a start rule that can
\* match zero tokens, each engine returns Ok with a RuleNode of the start
\* rule that has no token leaves.
EmptyStartTree(result) ==
  /\ result.kind = "Ok"
  /\ result.tree.kind = "RuleNode"
  /\ result.tree.rule_name = start_rule
  /\ Leaves(result.tree) = <<>>

C5_EmptyInputSucceeds ==
  (tokens = <<>> /\ Accepts) =>
     /\ BtReturned => EmptyStartTree(bt_result)
     /\ GssReturned => EmptyStartTree(gss_result)

\* The terminal misses parse_expr recorded: the Terminal keys of memo_map
\* with no continuation.
Misses == {k \in DOMAIN memo_map : Expr(k[1]).kind = "Terminal" /\ memo_map[k] = <<>>}
Furthest == IF Misses = {} THEN 0
            ELSE CHOOSE f \in {k[2] : k \in Misses} : \A k \in Misses : k[2] <= f
MissedAt(f) == {Expr(k[1]).pat : k \in {m \in Misses : m[2] = f}}

\* parse_expr returned Ok(()) and no continuation of start_expr at 0 ends at
\* len(tokens).
NoFullContinuation ==
  /\ BtReturned
  /\ Key(RootRef, 0) \in DOMAIN memo_map
  /\ \A c \in 1..Len(memo_map[Key(RootRef, 0)]) :
        memo_map[Key(RootRef, 0)][c].next_index # Len(tokens)

\* C6: when backtracking_parse finds no continuation of the start
\* expression ending at len(tokens), the furthest index f of a terminal miss
\* decides the error: IncompleteParse with f and the patterns missed at f
\* when f < len(tokens), OutOfInput with those patterns otherwise.
C6_ErrorByFurthestFailure ==
  NoFullContinuation =>
    bt_result = IF Furthest < Len(tokens)
                THEN IncompleteParse(Furthest, MissedAt(Furthest))
                ELSE OutOfInput(MissedAt(Furthest))

\* A run that failed after missing, at an earlier index, a pattern that is not
\* among those missed at the furthest index: the earlier miss was cleared.
C6_Witness ==
  /\ NoFullContinuation
  /\ bt_result.kind \in {"IncompleteParse", "OutOfInput"}
  /\ \E k \in Misses : /\ k[2] < Furthest
                       /\ Expr(k[1]).pat \notin MissedAt(Furthest)

\* The input of C7: grammar S : "a"+ and the empty token sequence.
PlusOnEmpty ==
  /\ parser = Rules1(OneOrMore(Terminal("a")))
  /\ start_rule = "S"
  /\ tokens = <<>>

\* C7 as claimed: on S : "a"+ and no token the backtracking engine reports
\* IncompleteParse with index 0 and expected set {"a"}.
C7_PlusOnEmptyIsIncomplete ==
  (PlusOnEmpty /\ BtReturned) => bt_result = IncompleteParse(0, {"a"})

\* C7 as amended: it reports OutOfInput with expected set {"a"}.
C7_PlusOnEmptyIsOutOfInput ==
  (PlusOnEmpty /\ BtReturned) => bt_result = OutOfInput({"a"})

C7_Witness == PlusOnEmpty /\ BtReturned /\ bt_result.kind # "Ok"

\* C8 as claimed: the index a failed backtracking parse reports is at least
\* the next_index of every continuation stored for the start expression at 0.
C8_IndexPastMatchedPrefix ==
  (BtReturned /\ bt_result.kind = "IncompleteParse") =>
    \A c \in 1..Len(memo_map[Key(RootRef, 0)]) :
       bt_result.index >= memo_map[Key(RootRef, 0)][c].next_index

\* The rule names an engine expanded: the RuleName expressions parse_expr
\* stored continuations for, the RuleName expressions of the GSSNodes made.
BtExpanded == {Expr(k[1]).name : k \in {m \in DOMAIN memo_map : Expr(m[1]).kind = "RuleName"}}
GssExpanded == {Expr(gss_nodes[n].expr).name :
                  n \in {m \in 1..Len(gss_nodes) : Expr(gss_nodes[m].expr).kind = "RuleName"}}

\* C9: an unresolved rule name is a parse-time error in both engines: with
\* an undefined start rule both return Err, and no engine returns a tree
\* after expanding a RuleName that is not a key of the rule map.
C9_UnresolvedRuleIsError ==
  /\ BtReturned =>
       /\ start_rule \notin DOMAIN parser => bt_result.kind = "ParseError"
       /\ bt_result.kind = "Ok" => BtExpanded \subseteq DOMAIN parser
  /\ GssReturned =>
       /\ start_rule \notin DOMAIN parser => gss_result.kind = "ParseError"
       /\ gss_result.kind = "Ok" => GssExpanded \subseteq DOMAIN parser

\* The start rule is defined, a rule it refers to is not, and both engines
\* came to expand it after matching a token.
C9_Witness ==
  /\ start_rule \in DOMAIN parser
  /\ BtReturned /\ bt_result = ParseError("Rule not found")
  /\ GssReturned /\ gss_result = ParseError("Cannot recognize rule")
  /\ Len(gss) >= 1
  /\ \E k \in DOMAIN memo_map : memo_map[k] # <<>>

\* A closure loop that cannot reach an empty pass: curr_pass holds a
\* continuation at an index where the child has a continuation that consumes
\* no token.  memo_map entries are never replaced, so extend_all puts a
\* continuation at that index into every later pass.
Stalled(f) ==
  /\ Expr(f.expr).kind \in {"Many", "OneOrMore"}
  /\ \E c \in 1..Len(f.curr_pass) :
       LET j == f.curr_pass[c].next_index
       IN  /\ Memoized(ChildRef(f.expr, 1), j)
           /\ \E d \in 1..Len(memo_map[Key(ChildRef(f.expr, 1), j)]) :
                memo_map[Key(ChildRef(f.expr, 1), j)][d].next_index = j

\* C10 as claimed: every Many/OneOrMore closure loop, those over a child
\* that can match zero tokens included, reaches an empty pass.
C10_ClosureReachesEmptyPass ==
  \A k \in 1..Len(stack) : ~Stalled(stack[k])

\* The links of the layers built so far, as pairs <<k, pos>>: gss[k - 1] of the
\* code is the k-th layer here.
LayerLinks == UNION {{<<k, pos>> : pos \in 1..Len(gss[k])} : k \in 1..Len(gss)}
LinkNode(kp) == gss_nodes[gss[kp[1]][kp[2]].node]
IsTerminalLink(kp) ==
  /\ Expr(LinkNode(kp).expr).kind = "Terminal"
  /\ LinkNode(kp).parent_data # Done
\* The node advance_auto makes on reaching the parentless root RuleName.
IsDoneLink(kp) ==
  /\ LinkNode(kp).parent_data = Done
  /\ LinkNode(kp).expr = RootRef
  /\ LinkNode(kp).parent = 0

StructuralErrors ==
  { "Terminal Expression has no parent",
    "Tried to feed token to non terminal expresison",
    "Tried to advance terminal without token",
    "Concatenation without parent",
    "Tried to advance Concatenation without index",
    "Alternatives or Optional lack parent",
    "OneOrMore or Many lack parent",
    "Backtrace and token stream have different lengths",
    "Non Terminal in backtrace" }

\* advance_auto is called on the parent of a node with that node's
\* parent_data (from advance_token and from its own upward steps), or on a
\* Many or Optional node with NoData (from resolve_to_terminals).  The nodes
\* allocated so far give every such call a node of the right shape.
AdvanceAutoCallsWellShaped ==
  \A n \in 1..Len(gss_nodes) :
    LET node == gss_nodes[n]
    IN  /\ node.parent = 0 => Expr(node.expr).kind = "RuleName"
        /\ node.parent # 0 =>
             /\ Expr(gss_nodes[node.parent].expr).kind # "Terminal"
             /\ Expr(gss_nodes[node.parent].expr).kind = "Concatenation" =>
                  /\ node.parent_data.tag = "Index"
                  /\ node.expr = ChildRef(gss_nodes[node.parent].expr, node.parent_data.i + 1)

\* The layers whose links advance_token was or will be called on: all but
\* gss[len(tokens)].
AdvanceTokenCallsWellShaped ==
  \A kp \in LayerLinks :
    kp[1] <= Len(tokens) =>
      \/ LinkNode(kp).parent_data = Done
      \/ /\ Expr(LinkNode(kp).expr).kind = "Terminal"
         /\ LinkNode(kp).parent # 0

\* The backtrace handed to backtrace_to_tree, when get_backtrace returns Ok.
BacktraceWellShaped ==
  (Len(gss) = Len(tokens) + 1 /\ get_backtrace(gss_nodes, gss).err = "") =>
    LET backtrace == get_backtrace(gss_nodes, gss).out
    IN  /\ Len(backtrace) = Len(tokens)
        /\ \A k \in 1..Len(backtrace) :
             Expr(gss_nodes[backtrace[k]].expr).kind = "Terminal"

\* C12: for a grammar whose rule names are all defined (every Concatenation
\* and Alternatives list of the grammars here is non-empty), no run of
\* gss_parse_tokens ends in a structural error: advance_token is called on
\* Terminal or Done nodes only, advance_auto never on a Terminal, on a
\* Concatenation without Index data or on a parentless node that is no
\* RuleName, and the backtrace has len(tokens) nodes, all of them Terminals.
C12_NoStructuralError ==
  (AllRulesDefined /\ gss_pc # "start") =>
    /\ AdvanceAutoCallsWellShaped
    /\ AdvanceTokenCallsWellShaped
    /\ BacktraceWellShaped
    /\ GssReturned => ~(gss_result.kind = "ParseError" /\ gss_result.msg \in StructuralErrors)

\* A run that returned a tree for three tokens after advancing inside a
\* Concatenation, past a repetition and out of a rule.
C12_Witness ==
  /\ AllRulesDefined
  /\ GssReturned /\ gss_result.kind = "Ok"
  /\ Len(tokens) = 3
  /\ Len(get_backtrace(gss_nodes, gss).out) = 3
  /\ \E n \in 1..Len(gss_nodes) :
       /\ gss_nodes[n].parent_data = Index(1)
       /\ Expr(gss_nodes[n].expr).kind \in {"Many", "RuleName"}

\* The grammars C13 is about.  An expression is nullable when it has a
\* derivation that consumes no token; LeftCalls(e) are the rule names e can
\* enter before consuming one.
Nullable(e) == 0 \in Ends(e, 0)

RECURSIVE SubExprs(_)
SubExprs(e) == {e} \cup UNION {SubExprs(e.subs[k]) : k \in 1..Len(e.subs)}

NoNullableRepetition ==
  \A n \in DOMAIN parser :
    \A e \in SubExprs(parser[n]) :
      e.kind \in {"Many", "OneOrMore"} => ~Nullable(e.subs[1])

RECURSIVE LeftCalls(_)
LeftCalls(e) ==
  CASE e.kind = "Terminal" -> {}
    [] e.kind = "RuleName" -> {e.name}
    [] e.kind = "Concatenation" ->
         UNION {LeftCalls(e.subs[k]) :
                  k \in {j \in 1..Len(e.subs) : \A h \in 1..(j - 1) : Nullable(e.subs[h])}}
    [] OTHER -> UNION {LeftCalls(e.subs[k]) : k \in 1..Len(e.subs)}

RECURSIVE LeftReach(_, _)
LeftReach(names, fuel) ==
  IF fuel = 0 THEN names
  ELSE LeftReach(names \cup UNION {LeftCalls(parser[n]) : n \in names \cap DOMAIN parser},
                 fuel - 1)

NoLeftRecursion ==
  \A n \in DOMAIN parser :
    n \notin LeftReach(LeftCalls(parser[n]), Cardinality(DOMAIN parser))

GssTerminatingGrammar == NoLeftRecursion /\ NoNullableRepetition

\* The recursion of resolve_to_terminals and advance_auto came back, and the
\* layers are gss[0] and one more for each token consumed so far; at the
\* return after the loop there are len(tokens) + 1 of them.
GssCallsReturned ==
  /\ gss_pc # "aborted"
  /\ Len(gss) <= Len(tokens) + 1
  /\ (GssReturned /\ gss_result.msg \notin {"Cannot recognize rule"}) =>
       Len(gss) = Len(tokens) + 1

\* One turn of the main loop pushes one layer, or ends the run with an Err.
OneLayerPerToken ==
  gss_parse_tokens_token =>
    \/ Len(gss') = Len(gss) + 1 /\ gss_pc' = "parsing"
    \/ Len(gss') = Len(gss) /\ gss_pc' = "returned"

\* C13: on a grammar without left recursion and without a Many/OneOrMore
\* over a child that can match zero tokens, every call of
\* resolve_to_terminals and advance_auto returns, the main loop adds exactly
\* one layer per token, and gss_parse_tokens eventually returns.
C13_GssTerminates ==
  /\ [](GssTerminatingGrammar => GssCallsReturned)
  /\ [][GssTerminatingGrammar => OneLayerPerToken]_vars
  /\ (GssTerminatingGrammar ~> GssReturned)

\* A run over three tokens that went round a repetition, built four layers
\* and returned.
C13_Witness ==
  /\ GssTerminatingGrammar
  /\ GssReturned
  /\ Len(tokens) = 3
  /\ Len(gss) = 4
  /\ \E n \in 1..Len(gss_nodes) : Expr(gss_nodes[n].expr).kind \in {"Many", "OneOrMore"}
  /\ \E k \in 1..Len(gss) : Len(gss[k]) >= 2
=============================================================================
